---- MODULE Spec2Model ----
(***************************************************************************)
(* Model of simplecalc (calculator.py): the four arithmetic functions, the *)
(* dispatch function calculate() and the Tk form that calls it.            *)
(*                                                                         *)
(* Texts (entry contents, label text) are sequences of one-character       *)
(* strings.  A Python float is a record [kind, neg, n, d]: kind "fin" is   *)
(* the sign-magnitude rational (-1)^neg * n/d in lowest terms (so 0.0 and  *)
(* -0.0 are distinct values that compare equal), kind "inf" is a signed    *)
(* infinity and kind "nan" is the not-a-number.  Operand texts are bounded *)
(* to values that binary64 represents exactly and whose sums, differences  *)
(* and products are exact, so that rational arithmetic coincides with      *)
(* IEEE-754 arithmetic on them.  A Python object is a tagged record:       *)
(* [tag |-> "float" | "str" | "exc", val |-> ...].                         *)
(***************************************************************************)
EXTENDS Integers, Sequences, FiniteSets, TLC

VARIABLES entry_num1, entry_num2, operation_var, result_label, trace,
          fn, fx, fy, fret

vars == <<entry_num1, entry_num2, operation_var, result_label, trace,
          fn, fx, fy, fret>>

formVars == <<entry_num1, entry_num2, operation_var, result_label, trace>>
fnVars == <<fn, fx, fy, fret>>

(***************************************************************************)
(* Constants of calculator.py                                              *)
(***************************************************************************)
DIVISION_BY_ZERO_ERROR ==
  <<"E","r","r","o","r",":"," ","D","i","v","i","s","i","o","n"," ",
    "b","y"," ","z","e","r","o">>

INPUT_ERROR ==
  <<"I","N","P","U","T"," ","E","R","R","O","R","!"," ","P","l","e","a","s","e",
    " ","e","n","t","e","r"," ","v","a","l","i","d"," ","n","u","m","b","e","r",
    "s",".">>

MATH_ERROR ==
  <<"M","A","T","H"," ","E","R","R","O","R","!"," ","D","i","v","i","s","i","o",
    "n"," ","b","y"," ","z","e","r","o"," ","i","s"," ","n","o","t"," ","a","l",
    "l","o","w","e","d",".">>

ResultPrefix == <<"R","e","s","u","l","t",":"," ">>

InvalidOperation ==
  <<"I","n","v","a","l","i","d"," ","o","p","e","r","a","t","i","o","n">>

InitialLabelText == ResultPrefix

\* faulty variant of operations: a fifth radio value
operations_WithModulo == {"+", "-", "*", "/", "%"}

operations == {"+", "-", "*", "/"}

(***************************************************************************)
(* Python objects                                                          *)
(***************************************************************************)
Fin(neg, n, d) == [kind |-> "fin", neg |-> neg, n |-> n, d |-> d]
Inf(neg) == [kind |-> "inf", neg |-> neg, n |-> 0, d |-> 1]
NaN == [kind |-> "nan", neg |-> FALSE, n |-> 0, d |-> 1]

PyFloatObj(v) == [tag |-> "float", val |-> v]
PyStr(s) == [tag |-> "str", val |-> s]
PyExc(name) == [tag |-> "exc", val |-> name]

RECURSIVE GCD(_, _)
GCD(a, b) == IF b = 0 THEN a ELSE GCD(b, a % b)

RECURSIVE Pow10(_)
Pow10(k) == IF k = 0 THEN 1 ELSE 10 * Pow10(k - 1)

\* the finite float (-1)^neg * n/d, in lowest terms
Rat(neg, n, d) ==
  IF n = 0 THEN Fin(neg, 0, 1)
  ELSE LET g == GCD(n, d) IN Fin(neg, n \div g, d \div g)

Abs(i) == IF i < 0 THEN -i ELSE i

\* float.__eq__ on two floats: nan equals nothing, 0.0 equals -0.0
FloatEq(a, b) ==
  /\ a.kind # "nan" /\ b.kind # "nan"
  /\ a.kind = b.kind
  /\ IF a.kind = "inf" THEN a.neg = b.neg
     ELSE /\ a.n = b.n /\ a.d = b.d
          /\ (a.n = 0 \/ a.neg = b.neg)

IsZero(v) == v.kind = "fin" /\ v.n = 0

\* == on two Python objects (float against str is False)
PyEq(a, b) ==
  /\ a.tag = b.tag
  /\ IF a.tag = "float" THEN FloatEq(a.val, b.val) ELSE a.val = b.val

(***************************************************************************)
(* float(text): the string-to-float conversion of calculate() lines 43-44  *)
(***************************************************************************)
Whitespace == {" ", "\t", "\n"}
DecDigits == {"0", "1", "2", "3", "4", "5", "6", "7", "8", "9"}

DigitVal(c) ==
  CASE c = "0" -> 0 [] c = "1" -> 1 [] c = "2" -> 2 [] c = "3" -> 3
    [] c = "4" -> 4 [] c = "5" -> 5 [] c = "6" -> 6 [] c = "7" -> 7
    [] c = "8" -> 8 [] c = "9" -> 9

\* the letters of "inf", "infinity", "nan" and the exponent mark match in
\* either case
ToLower(c) ==
  CASE c = "I" -> "i" [] c = "N" -> "n" [] c = "F" -> "f" [] c = "T" -> "t"
    [] c = "Y" -> "y" [] c = "A" -> "a" [] c = "E" -> "e" [] OTHER -> c

LowerText(s) == [i \in 1..Len(s) |-> ToLower(s[i])]

RECURSIVE LStrip(_)
LStrip(s) ==
  IF s # <<>> /\ Head(s) \in Whitespace THEN LStrip(Tail(s)) ELSE s

RECURSIVE RStrip(_)
RStrip(s) ==
  IF s # <<>> /\ s[Len(s)] \in Whitespace
  THEN RStrip(SubSeq(s, 1, Len(s) - 1)) ELSE s

Strip(s) == RStrip(LStrip(s))

\* index of the first occurrence of character c in s, 0 if there is none
IndexOf(s, c) ==
  IF \E i \in 1..Len(s) : s[i] = c
  THEN CHOOSE i \in 1..Len(s) : s[i] = c /\ \A j \in 1..(i - 1) : s[j] # c
  ELSE 0

\* digits, with single underscores allowed between two digits
IsDigitGroup(s) ==
  /\ s # <<>>
  /\ \A i \in 1..Len(s) : s[i] \in DecDigits \/ s[i] = "_"
  /\ s[1] # "_" /\ s[Len(s)] # "_"
  /\ \A i \in 1..(Len(s) - 1) : ~(s[i] = "_" /\ s[i + 1] = "_")

IsDigit(c) == c \in DecDigits
OnlyDigits(s) == SelectSeq(s, IsDigit)

RECURSIVE NatOf(_)
NatOf(ds) ==
  IF ds = <<>> THEN 0
  ELSE 10 * NatOf(SubSeq(ds, 1, Len(ds) - 1)) + DigitVal(ds[Len(ds)])

HasSign(s) == s # <<>> /\ Head(s) \in {"+", "-"}
IsNegSign(s) == s # <<>> /\ Head(s) = "-"
DropSign(s) == IF HasSign(s) THEN Tail(s) ELSE s

\* the decimal literal r (sign already removed): mantissa and exponent
Mantissa(r) ==
  LET e == IndexOf(r, "e") IN IF e = 0 THEN r ELSE SubSeq(r, 1, e - 1)
ExponentPart(r) ==
  LET e == IndexOf(r, "e") IN SubSeq(r, e + 1, Len(r))
IntPart(m) ==
  LET p == IndexOf(m, ".") IN IF p = 0 THEN m ELSE SubSeq(m, 1, p - 1)
FracPart(m) ==
  LET p == IndexOf(m, ".") IN IF p = 0 THEN <<>> ELSE SubSeq(m, p + 1, Len(m))

IsDecimalLiteral(r) ==
  LET m == Mantissa(r)
      ip == IntPart(m)
      fp == FracPart(m)
  IN /\ ip = <<>> \/ IsDigitGroup(ip)
     /\ fp = <<>> \/ IsDigitGroup(fp)
     /\ ip # <<>> \/ fp # <<>>
     /\ IndexOf(r, "e") # 0 => IsDigitGroup(DropSign(ExponentPart(r)))

DecimalValue(neg, r) ==
  LET m == Mantissa(r)
      fd == OnlyDigits(FracPart(m))
      digits == NatOf(OnlyDigits(IntPart(m)) \o fd)
      x == ExponentPart(r)
      ex == IF IndexOf(r, "e") = 0 THEN 0
            ELSE IF IsNegSign(x) THEN -NatOf(OnlyDigits(x))
            ELSE NatOf(OnlyDigits(x))
      scale == ex - Len(fd)
  IN IF scale >= 0 THEN Rat(neg, digits * Pow10(scale), 1)
     ELSE Rat(neg, digits, Pow10(-scale))

InfNames == {<<"i","n","f">>, <<"i","n","f","i","n","i","t","y">>}
NanName == <<"n","a","n">>

\* float(s) for a str s: a float object, or ValueError
PyFloat(s) ==
  LET t == LowerText(Strip(s))
      neg == IsNegSign(t)
      r == DropSign(t)
  IN IF r \in InfNames THEN PyFloatObj(Inf(neg))
     ELSE IF r = NanName THEN PyFloatObj(NaN)
     ELSE IF IsDecimalLiteral(r) THEN PyFloatObj(DecimalValue(neg, r))
     ELSE PyExc("ValueError")

(***************************************************************************)
(* Python float arithmetic: the operators +, -, *, / used on lines 12, 17, *)
(* 22 and 32                                                               *)
(***************************************************************************)
Signed(v) == IF v.neg THEN -v.n ELSE v.n

Negate(v) == IF v.kind = "nan" THEN v ELSE [v EXCEPT !.neg = ~v.neg]

\* x + y
PyAdd(x, y) ==
  IF x.kind = "nan" \/ y.kind = "nan" THEN NaN
  ELSE IF x.kind = "inf" /\ y.kind = "inf"
       THEN IF x.neg = y.neg THEN x ELSE NaN
  ELSE IF x.kind = "inf" THEN x
  ELSE IF y.kind = "inf" THEN y
  ELSE LET num == Signed(x) * y.d + Signed(y) * x.d
       IN IF num = 0 THEN Fin(x.neg /\ y.neg, 0, 1)
          ELSE Rat(num < 0, Abs(num), x.d * y.d)

\* x - y
PySub(x, y) == PyAdd(x, Negate(y))

\* x * y
PyMul(x, y) ==
  IF x.kind = "nan" \/ y.kind = "nan" THEN NaN
  ELSE IF x.kind = "inf" \/ y.kind = "inf"
       THEN IF IsZero(x) \/ IsZero(y) THEN NaN ELSE Inf(x.neg # y.neg)
  ELSE Rat(x.neg # y.neg, x.n * y.n, x.d * y.d)

\* x / y: a float object, or ZeroDivisionError when y == 0
PyTrueDiv(x, y) ==
  IF IsZero(y) THEN PyExc("ZeroDivisionError")
  ELSE IF x.kind = "nan" \/ y.kind = "nan" THEN PyFloatObj(NaN)
  ELSE IF x.kind = "inf"
       THEN IF y.kind = "inf" THEN PyFloatObj(NaN)
            ELSE PyFloatObj(Inf(x.neg # y.neg))
  ELSE IF y.kind = "inf" THEN PyFloatObj(Fin(x.neg # y.neg, 0, 1))
  ELSE PyFloatObj(Rat(x.neg # y.neg, x.n * y.d, x.d * y.n))

(***************************************************************************)
(* str(float), as the f-string of line 61 renders a float                  *)
(***************************************************************************)
DigitChar(i) ==
  CASE i = 0 -> "0" [] i = 1 -> "1" [] i = 2 -> "2" [] i = 3 -> "3"
    [] i = 4 -> "4" [] i = 5 -> "5" [] i = 6 -> "6" [] i = 7 -> "7"
    [] i = 8 -> "8" [] i = 9 -> "9"

RECURSIVE NatText(_)
NatText(n) ==
  IF n < 10 THEN <<DigitChar(n)>>
  ELSE NatText(n \div 10) \o <<DigitChar(n % 10)>>

\* the decimal digits of rem/d after the point (rem < d, d divides a power
\* of ten)
RECURSIVE FracDigits(_, _)
FracDigits(rem, d) ==
  IF rem = 0 THEN <<>>
  ELSE <<DigitChar((rem * 10) \div d)>> \o FracDigits((rem * 10) % d, d)

\* least k with n/d * 10^k >= 1, for 0 < n/d < 1
RECURSIVE DecimalShift(_, _)
DecimalShift(n, d) == IF n >= d THEN 0 ELSE 1 + DecimalShift(n * 10, d)

\* magnitudes in [1e-4, 1e16) and zero print in fixed notation with at least
\* one digit after the point; smaller ones print as d[.ddd]e-XX
FixedText(n, d) ==
  LET f == FracDigits(n % d, d)
  IN NatText(n \div d) \o <<".">> \o (IF f = <<>> THEN <<"0">> ELSE f)

ExpText(n, d) ==
  LET k == DecimalShift(n, d)
      m == n * Pow10(k)
      f == FracDigits(m % d, d)
  IN NatText(m \div d) \o (IF f = <<>> THEN <<>> ELSE <<".">> \o f)
       \o <<"e", "-">> \o (IF k < 10 THEN <<"0">> ELSE <<>>) \o NatText(k)

FloatRepr(v) ==
  IF v.kind = "nan" THEN <<"n", "a", "n">>
  ELSE (IF v.neg THEN <<"-">> ELSE <<>>) \o
       (IF v.kind = "inf" THEN <<"i", "n", "f">>
        ELSE IF v.n # 0 /\ v.n < (v.d + 9999) \div 10000
             THEN ExpText(v.n, v.d)
        ELSE FixedText(v.n, v.d))

\* format(obj, ""): a float by its repr, a str as it is
PyFormat(obj) == IF obj.tag = "float" THEN FloatRepr(obj.val) ELSE obj.val

(***************************************************************************)
(* The four operations                                                     *)
(***************************************************************************)
add(x, y) == PyFloatObj(PyAdd(x, y))

subtract(x, y) == PyFloatObj(PySub(x, y))

\* faulty variant of multiply: adds
multiply_AsAdd(x, y) == PyFloatObj(PyAdd(x, y))

multiply(x, y) == PyFloatObj(PyMul(x, y))

\* faulty variants of divide: no zero check; the zero check on the wrong operand;
\* the operands of the division reversed
divide_NoZeroCheck(x, y) == PyTrueDiv(x, y)

divide_ZeroCheckOnX(x, y) ==
  IF PyEq(PyFloatObj(x), PyFloatObj(Fin(FALSE, 0, 1)))
  THEN PyStr(DIVISION_BY_ZERO_ERROR)
  ELSE PyTrueDiv(x, y)

divide_Reversed(x, y) ==
  IF PyEq(PyFloatObj(y), PyFloatObj(Fin(FALSE, 0, 1)))
  THEN PyStr(DIVISION_BY_ZERO_ERROR)
  ELSE PyTrueDiv(y, x)

divide(x, y) ==
  IF PyEq(PyFloatObj(y), PyFloatObj(Fin(FALSE, 0, 1)))
  THEN PyStr(DIVISION_BY_ZERO_ERROR)
  ELSE PyTrueDiv(x, y)

(***************************************************************************)
(* calculate(entry_num1, entry_num2, operation_var, result_label)          *)
(*                                                                         *)
(* CalculateRun is the body of the function on the texts and the token it  *)
(* reads: the operations it invokes (in order), the texts it passes to     *)
(* result_label.config (in order) and the exception that leaves it, if any.*)
(***************************************************************************)
Invocation(f, x, y) == [f |-> f, x |-> x, y |-> y]

Outcome(invoked, configs, raised) ==
  [invoked |-> invoked, configs |-> configs, raised |-> raised]

\* an exception raised inside the try block: ValueError is caught by the
\* except clause of line 62, anything else leaves the function
OnException(invoked, name) ==
  IF name = "ValueError" THEN Outcome(invoked, <<INPUT_ERROR>>, "none")
  ELSE Outcome(invoked, <<>>, name)

\* line 61, reached with the value of result
FormatResult(invoked, result) ==
  IF result.tag = "exc" THEN OnException(invoked, result.val)
  ELSE Outcome(invoked, <<ResultPrefix \o PyFormat(result)>>, "none")

\* faulty variants of Dispatch: subtract called with its operands swapped; an
\* unrecognized token handled as "+"; the sentinel of divide not intercepted
Dispatch_SwappedSubtract(num1, num2, operation) ==
  IF operation = "+"
  THEN FormatResult(<<Invocation("add", num1, num2)>>, add(num1, num2))
  ELSE IF operation = "-"
  THEN FormatResult(<<Invocation("subtract", num2, num1)>>,
                    subtract(num2, num1))
  ELSE IF operation = "*"
  THEN FormatResult(<<Invocation("multiply", num1, num2)>>,
                    multiply(num1, num2))
  ELSE IF operation = "/"
  THEN LET result == divide(num1, num2)
           inv == <<Invocation("divide", num1, num2)>>
       IN IF result.tag # "exc" /\ PyEq(result, PyStr(DIVISION_BY_ZERO_ERROR))
          THEN Outcome(inv, <<MATH_ERROR>>, "none")
          ELSE FormatResult(inv, result)
  ELSE FormatResult(<<>>, PyStr(InvalidOperation))

Dispatch_DefaultAdd(num1, num2, operation) ==
  IF operation = "-"
  THEN FormatResult(<<Invocation("subtract", num1, num2)>>,
                    subtract(num1, num2))
  ELSE IF operation = "*"
  THEN FormatResult(<<Invocation("multiply", num1, num2)>>,
                    multiply(num1, num2))
  ELSE IF operation = "/"
  THEN LET result == divide(num1, num2)
           inv == <<Invocation("divide", num1, num2)>>
       IN IF result.tag # "exc" /\ PyEq(result, PyStr(DIVISION_BY_ZERO_ERROR))
          THEN Outcome(inv, <<MATH_ERROR>>, "none")
          ELSE FormatResult(inv, result)
  ELSE FormatResult(<<Invocation("add", num1, num2)>>, add(num1, num2))

Dispatch_NoSentinelCheck(num1, num2, operation) ==
  IF operation = "+"
  THEN FormatResult(<<Invocation("add", num1, num2)>>, add(num1, num2))
  ELSE IF operation = "-"
  THEN FormatResult(<<Invocation("subtract", num1, num2)>>,
                    subtract(num1, num2))
  ELSE IF operation = "*"
  THEN FormatResult(<<Invocation("multiply", num1, num2)>>,
                    multiply(num1, num2))
  ELSE IF operation = "/"
  THEN FormatResult(<<Invocation("divide", num1, num2)>>, divide(num1, num2))
  ELSE FormatResult(<<>>, PyStr(InvalidOperation))

Dispatch(num1, num2, operation) ==
  IF operation = "+"
  THEN FormatResult(<<Invocation("add", num1, num2)>>, add(num1, num2))
  ELSE IF operation = "-"
  THEN FormatResult(<<Invocation("subtract", num1, num2)>>,
                    subtract(num1, num2))
  ELSE IF operation = "*"
  THEN FormatResult(<<Invocation("multiply", num1, num2)>>,
                    multiply(num1, num2))
  ELSE IF operation = "/"
  THEN LET result == divide(num1, num2)
           inv == <<Invocation("divide", num1, num2)>>
       IN IF result.tag # "exc" /\ PyEq(result, PyStr(DIVISION_BY_ZERO_ERROR))
          THEN Outcome(inv, <<MATH_ERROR>>, "none")
          ELSE FormatResult(inv, result)
  ELSE FormatResult(<<>>, PyStr(InvalidOperation))

\* faulty variant of CalculateRun: the token is examined before the texts are parsed
CalculateRun_TokenFirst(text1, text2, operation) ==
  LET num1 == PyFloat(text1)
      num2 == PyFloat(text2)
  IN IF operation \notin {"+", "-", "*", "/"}
     THEN FormatResult(<<>>, PyStr(InvalidOperation))
     ELSE IF num1.tag = "exc" THEN OnException(<<>>, num1.val)
     ELSE IF num2.tag = "exc" THEN OnException(<<>>, num2.val)
     ELSE Dispatch(num1.val, num2.val, operation)

CalculateRun(text1, text2, operation) ==
  LET num1 == PyFloat(text1)
      num2 == PyFloat(text2)
  IN IF num1.tag = "exc" THEN OnException(<<>>, num1.val)
     ELSE IF num2.tag = "exc" THEN OnException(<<>>, num2.val)
     ELSE Dispatch(num1.val, num2.val, operation)

\* what the call recorded: its arguments as read, and its outcome
CallRecord(text1, text2, operation, out) ==
  [called |-> TRUE, text1 |-> text1, text2 |-> text2, operation |-> operation,
   invoked |-> out.invoked, configs |-> out.configs, raised |-> out.raised]

NoCall ==
  [called |-> FALSE, text1 |-> <<>>, text2 |-> <<>>, operation |-> "+",
   invoked |-> <<>>, configs |-> <<>>, raised |-> "none"]

\* result_label after the config calls of one run
LabelAfter(label, configs) ==
  IF configs = <<>> THEN label ELSE configs[Len(configs)]

\* faulty variant of calculate: an error message, once shown, stays
calculate_StickyError ==
  LET out == CalculateRun(entry_num1, entry_num2, operation_var)
  IN /\ result_label' =
          IF result_label \in {MATH_ERROR, INPUT_ERROR} THEN result_label
          ELSE LabelAfter(result_label, out.configs)
     /\ trace' = CallRecord(entry_num1, entry_num2, operation_var, out)
     /\ UNCHANGED <<entry_num1, entry_num2, operation_var>>
     /\ UNCHANGED fnVars

calculate ==
  LET out == CalculateRun(entry_num1, entry_num2, operation_var)
  IN /\ result_label' = LabelAfter(result_label, out.configs)
     /\ trace' = CallRecord(entry_num1, entry_num2, operation_var, out)
     /\ UNCHANGED <<entry_num1, entry_num2, operation_var>>
     /\ UNCHANGED fnVars

(***************************************************************************)
(* Bounds: the texts a user types and the tokens a caller passes           *)
(***************************************************************************)
TextPool ==
  << <<"4","0">>, <<"0">>, <<"a","b","c">>, <<"2",".","5">>, <<"-","0">>,
     <<"i","n","f">>, <<" ","5"," ">>, <<"8","e","3">>, <<"n","a","n">>,
     <<>>, <<"-","0",".","5">>, <<"1","_","6">>, <<"-">>, <<"2",".">>,
     <<"-","I","n","f","i","n","i","t","y">> >>

NumTexts == 7

OperandTexts ==
  {TextPool[i] : i \in 1..(IF NumTexts < Len(TextPool) THEN NumTexts
                           ELSE Len(TextPool))}

\* tokens outside the four radio values, as a caller other than the form
\* can pass them
OtherTokens == {"%", ""}
Tokens == operations \cup OtherTokens

FloatInputs ==
  {PyFloat(t).val : t \in {u \in OperandTexts : PyFloat(u).tag = "float"}}

(***************************************************************************)
(* The form (lines 67-107)                                                 *)
(***************************************************************************)
NoReturn == [tag |-> "none", val |-> <<>>]

FormInit ==
  /\ entry_num1 = <<>>
  /\ entry_num2 = <<>>
  /\ operation_var = "+"
  /\ result_label = InitialLabelText
  /\ trace = NoCall

FnIdle ==
  /\ fn = "none"
  /\ fx = Fin(FALSE, 0, 1)
  /\ fy = Fin(FALSE, 0, 1)
  /\ fret = NoReturn

Init == FormInit /\ FnIdle

\* the user edits an entry field
EditNum1(t) ==
  /\ entry_num1' = t
  /\ UNCHANGED <<entry_num2, operation_var, result_label, trace>>
  /\ UNCHANGED fnVars

EditNum2(t) ==
  /\ entry_num2' = t
  /\ UNCHANGED <<entry_num1, operation_var, result_label, trace>>
  /\ UNCHANGED fnVars

\* the user picks one of the four radio buttons
SelectOperation(op) ==
  /\ operation_var' = op
  /\ UNCHANGED <<entry_num1, entry_num2, result_label, trace>>
  /\ UNCHANGED fnVars

\* the Calculate button's command
PressCalculate == calculate

Next ==
  \/ \E t \in OperandTexts : EditNum1(t)
  \/ \E t \in OperandTexts : EditNum2(t)
  \/ \E op \in operations : SelectOperation(op)
  \/ PressCalculate

Spec == Init /\ [][Next]_vars

(***************************************************************************)
(* calculate() called directly with any operator token, as the unit tests  *)
(* do through mocks                                                        *)
(***************************************************************************)
SetOperation(tok) ==
  /\ operation_var' = tok
  /\ UNCHANGED <<entry_num1, entry_num2, result_label, trace>>
  /\ UNCHANGED fnVars

CallCalculate == calculate

NextCall ==
  \/ \E t \in OperandTexts : EditNum1(t)
  \/ \E t \in OperandTexts : EditNum2(t)
  \/ \E tok \in Tokens : SetOperation(tok)
  \/ CallCalculate

SpecCall == Init /\ [][NextCall]_vars

(***************************************************************************)
(* The four operations called directly on floats                           *)
(***************************************************************************)
InitFn ==
  /\ FormInit
  /\ fn = "none"
  /\ fx \in FloatInputs
  /\ fy \in FloatInputs
  /\ fret = NoReturn

CallFn(name, value) ==
  /\ fn' = name
  /\ fret' = value
  /\ UNCHANGED <<fx, fy>>
  /\ UNCHANGED formVars

CallAdd == CallFn("add", add(fx, fy))
CallSubtract == CallFn("subtract", subtract(fx, fy))
CallMultiply == CallFn("multiply", multiply(fx, fy))
CallDivide == CallFn("divide", divide(fx, fy))

NextFn == CallAdd \/ CallSubtract \/ CallMultiply \/ CallDivide

SpecFn == InitFn /\ [][NextFn]_vars

(***************************************************************************)
(* Properties                                                              *)
(***************************************************************************)
RecognizedTokens == {"+", "-", "*", "/"}

Num1 == PyFloat(trace.text1)
Num2 == PyFloat(trace.text2)
BothParse == Num1.tag = "float" /\ Num2.tag = "float"
ZeroDivision == trace.operation = "/" /\ IsZero(Num2.val)

InvalidOperationText == ResultPrefix \o InvalidOperation

\* the operation that matches a recognized token, applied to (x, y)
MatchingOperation(tok, x, y) ==
  CASE tok = "+" -> add(x, y)
    [] tok = "-" -> subtract(x, y)
    [] tok = "*" -> multiply(x, y)
    [] tok = "/" -> divide(x, y)

MatchingName(tok) ==
  CASE tok = "+" -> "add" [] tok = "-" -> "subtract"
    [] tok = "*" -> "multiply" [] tok = "/" -> "divide"

\* text s occurs in text t
Contains(t, s) ==
  \E i \in 0..(Len(t) - Len(s)) : SubSeq(t, i + 1, i + Len(s)) = s

HasPrefix(t, s) == Len(t) >= Len(s) /\ SubSeq(t, 1, Len(s)) = s

\* C1: when both operand texts parse and the token is one of + - * /, not
\* being a division by zero, calculate invokes the matching operation on
\* (first operand, second operand) in that order and sets the label to
\* "Result: " followed by the rendering of the value it returned.
C1_ResultOfMatchingOperation ==
  (trace.called /\ BothParse /\ trace.operation \in RecognizedTokens
     /\ ~ZeroDivision)
  => LET value == MatchingOperation(trace.operation, Num1.val, Num2.val)
     IN /\ value.tag = "float"
        /\ result_label = ResultPrefix \o FloatRepr(value.val)
        /\ trace.configs = <<result_label>>
        /\ trace.invoked =
             <<Invocation(MatchingName(trace.operation), Num1.val, Num2.val)>>

\* a subtraction 40 - 2.5 was displayed as "Result: 37.5"
C1_Witness ==
  /\ trace.called
  /\ trace.text1 = <<"4","0">> /\ trace.text2 = <<"2",".","5">>
  /\ trace.operation = "-"
  /\ result_label = ResultPrefix \o <<"3","7",".","5">>

\* C2: when both operand texts parse, the label is the math-error message
\* exactly when the token is "/" and the second operand is zero, and then
\* nothing starting with "Result: " was written.
C2_MathErrorIffZeroDivision ==
  (trace.called /\ BothParse)
  => /\ (result_label = MATH_ERROR) <=> ZeroDivision
     /\ ZeroDivision => trace.configs = <<MATH_ERROR>>
     /\ \A i \in 1..Len(trace.configs) :
          trace.configs[i] = MATH_ERROR <=> ZeroDivision

\* 40 / -0 was answered by the math-error message
C2_Witness ==
  /\ trace.called
  /\ trace.text1 = <<"4","0">> /\ trace.text2 = <<"-","0">>
  /\ trace.operation = "/"
  /\ result_label = MATH_ERROR

\* C3: when either operand text fails to parse, calculate sets the label to
\* the invalid-input message whatever the token is, and invokes none of the
\* four operations.
C3_InvalidInputFirst ==
  (trace.called /\ ~BothParse)
  => /\ result_label = INPUT_ERROR
     /\ trace.configs = <<INPUT_ERROR>>
     /\ trace.invoked = <<>>

\* "abc" / 0 and 0 % "abc" both gave the invalid-input message
C3_Witness ==
  /\ trace.called /\ ~BothParse
  /\ \/ /\ trace.operation = "/" /\ trace.text1 = <<"a","b","c">>
        /\ trace.text2 = <<"0">>
     \/ /\ trace.operation = "%" /\ trace.text2 = <<"a","b","c">>
        /\ trace.text1 = <<"0">>
  /\ result_label = INPUT_ERROR

\* C4: when both operand texts parse and the token is none of + - * /, the
\* label is exactly "Result: Invalid operation", also for a zero second
\* operand, and no operation is invoked.
C4_InvalidOperation ==
  (trace.called /\ BothParse /\ trace.operation \notin RecognizedTokens)
  => /\ result_label = InvalidOperationText
     /\ trace.configs = <<InvalidOperationText>>
     /\ result_label # INPUT_ERROR /\ result_label # MATH_ERROR
     /\ trace.invoked = <<>>

\* 40 % 0 gave "Result: Invalid operation"
C4_Witness ==
  /\ trace.called /\ BothParse
  /\ trace.operation = "%" /\ IsZero(Num2.val)
  /\ result_label = InvalidOperationText

\* C5: divide(x, y) returns the division-by-zero sentinel, not a number,
\* exactly when y equals zero (for every x, zero included), and otherwise
\* returns the float quotient x / y.
C5_DivideContract ==
  (fn = "divide")
  => /\ IsZero(fy) => fret.tag = "str" /\ fret.val = DIVISION_BY_ZERO_ERROR
     /\ ~IsZero(fy) => fret.tag = "float" /\ fret = PyTrueDiv(fx, fy)
     /\ (fx.kind = "fin" /\ fy.kind = "fin" /\ ~IsZero(fy))
          => /\ fret.val.kind = "fin"
             /\ fret.val.n * fx.d * fy.n = fx.n * fy.d * fret.val.d
             /\ (fret.val.neg <=> (fx.neg # fy.neg))

\* divide(0.0, 0.0) returned the sentinel and divide(40.0, 2.5) returned 16.0
C5_Witness ==
  /\ fn = "divide"
  /\ \/ IsZero(fx) /\ IsZero(fy) /\ fret.tag = "str"
     \/ fx = Fin(FALSE, 40, 1) /\ fy = Fin(FALSE, 5, 2)
          /\ fret = PyFloatObj(Fin(FALSE, 16, 1))

\* r is the exact sum of the finite floats x and y
IsExactSum(r, x, y) ==
  /\ r.kind = "fin"
  /\ Signed(r) * x.d * y.d = (Signed(x) * y.d + Signed(y) * x.d) * r.d

IsExactDifference(r, x, y) ==
  /\ r.kind = "fin"
  /\ Signed(r) * x.d * y.d = (Signed(x) * y.d - Signed(y) * x.d) * r.d

IsExactProduct(r, x, y) ==
  /\ r.kind = "fin"
  /\ Signed(r) * x.d * y.d = Signed(x) * Signed(y) * r.d

\* C6: add, subtract and multiply always return a float, never an error
\* value: the float x + y, x - y and x * y respectively, which on finite
\* operands is the exact sum, difference (second taken from first) and
\* product.
C6_AddSubtractMultiply ==
  /\ fn \in {"add", "subtract", "multiply"} => fret.tag = "float"
  /\ fn = "add" =>
       /\ fret.val = PyAdd(fx, fy)
       /\ (fx.kind = "fin" /\ fy.kind = "fin") => IsExactSum(fret.val, fx, fy)
  /\ fn = "subtract" =>
       /\ fret.val = PySub(fx, fy)
       /\ (fx.kind = "fin" /\ fy.kind = "fin")
            => IsExactDifference(fret.val, fx, fy)
  /\ fn = "multiply" =>
       /\ fret.val = PyMul(fx, fy)
       /\ (fx.kind = "fin" /\ fy.kind = "fin")
            => IsExactProduct(fret.val, fx, fy)

\* subtract(2.5, 40.0) returned -37.5
C6_Witness ==
  /\ fn = "subtract"
  /\ fx = Fin(FALSE, 5, 2) /\ fy = Fin(FALSE, 40, 1)
  /\ fret = PyFloatObj(Fin(TRUE, 75, 2))

\* the text is "Result: " followed by the rendering of a number
IsNumericResultText(t) ==
  /\ HasPrefix(t, ResultPrefix)
  /\ PyFloat(SubSeq(t, Len(ResultPrefix) + 1, Len(t))).tag = "float"

OutcomesMatched(t) ==
  (IF t = INPUT_ERROR THEN 1 ELSE 0) + (IF t = MATH_ERROR THEN 1 ELSE 0)
    + (IF t = InvalidOperationText THEN 1 ELSE 0)
    + (IF IsNumericResultText(t) THEN 1 ELSE 0)

\* C7: for every pair of operand texts and every token, calculate returns
\* without an exception, writes the label exactly once, and what it writes
\* is exactly one of: the invalid-input message, the math-error message,
\* "Result: Invalid operation", "Result: " followed by a number.
C7_OneWriteOneOutcome ==
  trace.called
  => /\ trace.raised = "none"
     /\ Len(trace.configs) = 1
     /\ trace.configs[1] = result_label
     /\ OutcomesMatched(result_label) = 1

\* all four outcomes occur; the witness is a division by zero of inf
C7_Witness ==
  /\ trace.called
  /\ trace.text1 = <<"i","n","f">> /\ trace.text2 = <<"0">>
  /\ trace.operation = "/"
  /\ Len(trace.configs) = 1

\* the label a single call on a fresh form would show for these inputs
SingleCallLabel(text1, text2, operation) ==
  LabelAfter(InitialLabelText, CalculateRun(text1, text2, operation).configs)

\* C8: a call of calculate changes nothing but the result label (both
\* entries and the operator selection keep their values), and the label it
\* leaves is the one a single call with the current texts and token gives,
\* whatever the label showed before and whatever calls came earlier.
C8_OnlyLabelChanges ==
  [][(trace' # trace \/ result_label' # result_label)
       => /\ entry_num1' = entry_num1
          /\ entry_num2' = entry_num2
          /\ operation_var' = operation_var
          /\ trace'.called
          /\ result_label' =
               SingleCallLabel(entry_num1, entry_num2, operation_var)]_vars

\* a call on the current inputs 40 * 2.5 left "Result: 100.0"
C8_Witness ==
  /\ trace.called
  /\ entry_num1 = <<"4","0">> /\ entry_num2 = <<"2",".","5">>
  /\ operation_var = "*"
  /\ trace.text1 = entry_num1 /\ trace.text2 = entry_num2
  /\ trace.operation = operation_var
  /\ result_label = ResultPrefix \o <<"1","0","0",".","0">>

\* C9: the sentinel text of divide never appears in the result label, nor
\* in anything calculate writes to it.
C9_SentinelNeverShown ==
  /\ ~Contains(result_label, DIVISION_BY_ZERO_ERROR)
  /\ \A i \in 1..Len(trace.configs) :
       ~Contains(trace.configs[i], DIVISION_BY_ZERO_ERROR)

\* divide was invoked with a zero divisor and returned the sentinel
C9_Witness ==
  /\ trace.called
  /\ trace.invoked # <<>>
  /\ trace.invoked[1].f = "divide" /\ IsZero(trace.invoked[1].y)
  /\ result_label = MATH_ERROR

\* C10: in the form the operator selection is always one of + - * /, and
\* the label never shows "Result: Invalid operation".
C10_FormOperatorRecognized ==
  /\ operation_var \in RecognizedTokens
  /\ result_label # InvalidOperationText
  /\ trace.called => trace.operation \in RecognizedTokens

\* Calculate was pressed with "*" selected, then "/" was selected
C10_Witness ==
  /\ trace.called /\ trace.operation = "*"
  /\ operation_var = "/"

====
